---- MODULE Spec2Model ----
(***************************************************************************)
(* PhoenixClient (src/src/client.ts): the request layer of the Phoenix SDK *)
(* and its retry / backoff / timeout controller, with the error            *)
(* classification of src/unnamed/part_002 (errors.ts).                     *)
(*                                                                         *)
(* Time is in milliseconds.  A header value is a sequence of one-character *)
(* strings, so that parseInt is modelled by what it does.                  *)
(***************************************************************************)
EXTENDS Integers, Sequences, FiniteSets, TLC

(* ------------------------------ bounds --------------------------------- *)

\* transport calls one request may make in the general specification
MaxCalls == 4
\* largest finite maxRetries a caller supplies
MaxRetriesCfg == 1
\* transport calls one request may make in scenario A
MaxCallsA == 34
\* transport calls one request may make in scenario B
MaxCallsB == 7
\* transport calls each of the concurrent requests may make
MaxCallsP == 2

(* ------------------------- values of the model ------------------------- *)

\* an optional number that was not supplied (maxRetries?, timeoutMinutes?)
Undefined == -1
\* error.response?.status of an error that has no response
NoStatus == 0

Min(a, b) == IF a < b THEN a ELSE b
Max(a, b) == IF a > b THEN a ELSE b

\* a header that is not there, and a header with text t
Absent == [has |-> FALSE, text |-> <<>>]
Hdr(t) == [has |-> TRUE, text |-> t]

\* the result of parseInt: NaN or an integer
NaN == [nan |-> TRUE, val |-> 0]
Num(n) == [nan |-> FALSE, val |-> n]

Digits == <<"0", "1", "2", "3", "4", "5", "6", "7", "8", "9">>
IsDigit(c) == \E i \in 1..10 : Digits[i] = c
DigitVal(c) == (CHOOSE i \in 1..10 : Digits[i] = c) - 1
IsSpace(c) == c = " "

RECURSIVE SkipSpaces(_, _)
SkipSpaces(s, i) ==
  IF i <= Len(s) /\ IsSpace(s[i]) THEN SkipSpaces(s, i + 1) ELSE i

RECURSIVE ParseDigits(_, _, _)
ParseDigits(s, i, acc) ==
  IF i > Len(s) \/ ~IsDigit(s[i]) THEN acc
  ELSE ParseDigits(s, i + 1, acc * 10 + DigitVal(s[i]))

\* parseInt(h, 10): leading blanks, an optional sign, then the longest run
\* of decimal digits; NaN when there is no digit (or no header at all)
ParseInt(h) ==
  IF ~h.has THEN NaN
  ELSE LET s == h.text
           i == SkipSpaces(s, 1)
           neg == i <= Len(s) /\ s[i] = "-"
           j == IF i <= Len(s) /\ s[i] \in {"-", "+"} THEN i + 1 ELSE i
       IN IF j > Len(s) \/ ~IsDigit(s[j]) THEN NaN
          ELSE LET v == ParseDigits(s, j, 0)
               IN Num(IF neg THEN 0 - v ELSE v)

(* --------------------------- retry arithmetic --------------------------- *)

\* (config.timeoutMinutes || 10): undefined and 0 are both falsy
TimeoutMinutes(c) ==
  IF c.timeoutMinutes = Undefined \/ c.timeoutMinutes = 0 THEN 10
  ELSE c.timeoutMinutes

TimeoutMs(c) == TimeoutMinutes(c) * 60 * 1000

\* Exhausted with > for >=: one retry too many
ExhaustedOffByOne(c, r) == c.maxRetries # Undefined /\ r > c.maxRetries

\* Exhausted with a default of 0 for Infinity
ExhaustedDefaultZero(c, r) ==
  r >= (IF c.maxRetries = Undefined THEN 0 ELSE c.maxRetries)

\* Exhausted with || for ??: maxRetries = 0 becomes Infinity
ExhaustedFalsyZero(c, r) ==
  c.maxRetries # Undefined /\ c.maxRetries # 0 /\ r >= c.maxRetries

\* retries >= maxRetries with maxRetries = config.maxRetries ?? Infinity
Exhausted(c, r) == c.maxRetries # Undefined /\ r >= c.maxRetries

\* Backoff without its cap
BackoffUncapped(r, jit) == IF r > 20 THEN 30000 ELSE 2000 * 2 ^ r + jit

\* Math.min(30000, 2000 * 2 ** retries + Math.random() * 1000), jit being
\* the value of Math.random() * 1000.  2000 * 2 ** r is above 30000 from
\* r = 4 on; the power is not evaluated for large r, where it leaves
\* TLC's 32-bit integers.
Backoff(r, jit) ==
  IF r > 20 THEN 30000 ELSE Min(30000, 2000 * 2 ^ r + jit)

\* ResponseWaitMs that does not read the header
ResponseWaitMsNoHint(h, r, jit) == Backoff(r, jit)

\* waitMs of the try block
ResponseWaitMs(h, r, jit) ==
  LET retrySeconds == ParseInt(h)
  IN IF retrySeconds.nan THEN Backoff(r, jit) ELSE retrySeconds.val * 1000

\* elapsed + waitMs >= timeoutMs (try block)
ResponseTimedOut(elapsed, waitMs, c) == elapsed + waitMs >= TimeoutMs(c)

\* ThrownTimedOut with the comparison turned round
ThrownTimedOutInverted(elapsed, c) == elapsed <= TimeoutMs(c)

\* elapsed >= timeoutMs (catch block)
ThrownTimedOut(elapsed, c) == elapsed >= TimeoutMs(c)

(* ------------------------- transport outcomes --------------------------- *)

\* retryAfter of RateLimitError / ServiceUnavailableError: undefined, or the
\* value parseInt produced
NoHint == [def |-> FALSE, nan |-> FALSE, val |-> 0]
Hint(p) == [def |-> TRUE, nan |-> p.nan, val |-> p.val]

\* What one exchange produces, and what request() ends with.  kind is
\* "response" (an AxiosResponse) or "error" (a thrown value); name is the
\* class of a thrown value; status / header / text are response.status,
\* response.headers['retry-after'] and response.data.errors[0].text.
Response(st, h) ==
  [kind |-> "response", name |-> "", code |-> "", status |-> st, header |-> h,
   text |-> <<>>, retryAfter |-> NoHint, minutes |-> 0]

AxiosError(st, h, t) ==
  [kind |-> "error", name |-> "AxiosError", code |-> "", status |-> st,
   header |-> h, text |-> t, retryAfter |-> NoHint, minutes |-> 0]

NoResult ==
  [kind |-> "none", name |-> "", code |-> "", status |-> NoStatus,
   header |-> Absent, text |-> <<>>, retryAfter |-> NoHint, minutes |-> 0]

\* new PhoenixError(message, code, statusCode) and its subclasses
PhoenixErr(nm, cd, st, msg, ra, mins) ==
  [kind |-> "error", name |-> nm, code |-> cd, status |-> st,
   header |-> Absent, text |-> msg, retryAfter |-> ra, minutes |-> mins]

\* TimeoutError that always reports the default
TimeoutErrorDefault(mins) ==
  PhoenixErr("TimeoutError", "TIMEOUT", 408, <<>>, NoHint, 10)

TimeoutError(mins) ==
  PhoenixErr("TimeoutError", "TIMEOUT", 408, <<>>, NoHint, mins)

\* error.message of an AxiosError
AxiosMessage == <<"R", "e", "q", "u", "e", "s", "t", " ", "f", "a", "i", "l", "e", "d">>
ProjectExistsText == <<"P", "r", "o", "j", "e", "c", "t", " ", "a", "l", "r", "e", "a", "d", "y", " ", "e", "x", "i", "s", "t", "s">>
UnknownId == <<"u", "n", "k", "n", "o", "w", "n">>

\* primaryError?.text || error.message
ErrorMessage(e) == IF e.text # <<>> THEN e.text ELSE AxiosMessage

\* s.includes(t)
Includes(s, t) ==
  \E p \in 1..(Len(s) - Len(t) + 1) : SubSeq(s, p, p + Len(t) - 1) = t

RECURSIVE RunEnd(_, _, _)
\* the last index of the run of blanks (sp) or non-blanks (~sp) from i on;
\* i - 1 when the run is empty
RunEnd(s, i, sp) ==
  IF i <= Len(s) /\ (IsSpace(s[i]) <=> sp) THEN RunEnd(s, i + 1, sp)
  ELSE i - 1

\* the positions where /ID\s+(\S+)/ matches
IdMatches(s) ==
  {p \in 1..Len(s) :
     /\ p + 1 <= Len(s) /\ s[p] = "I" /\ s[p + 1] = "D"
     /\ RunEnd(s, p + 2, TRUE) >= p + 2
     /\ RunEnd(s, RunEnd(s, p + 2, TRUE) + 1, FALSE)
          > RunEnd(s, p + 2, TRUE)}

\* errorMessage.match(/ID\s+(\S+)/)?.[1] || 'unknown'
ProjectId(s) ==
  IF IdMatches(s) = {} THEN UnknownId
  ELSE LET p == CHOOSE q \in IdMatches(s) : \A r \in IdMatches(s) : q <= r
           b == RunEnd(s, p + 2, TRUE) + 1
       IN SubSeq(s, b, RunEnd(s, b, FALSE))

\* retryAfter ? parseInt(retryAfter, 10) : undefined
HintOf(h) == IF h.has /\ h.text # <<>> THEN Hint(ParseInt(h)) ELSE NoHint

\* HttpCode that loses the status
HttpCodeUnknown(st) == "HTTP_UNKNOWN"

\* `HTTP_${status || 'UNKNOWN'}`
HttpCode(st) ==
  CASE st = 500 -> "HTTP_500"
    [] st = 502 -> "HTTP_502"
    [] OTHER -> "HTTP_OTHER"

\* handleAxiosError(error)
HandleAxiosError(e) ==
  LET msg == ErrorMessage(e)
  IN CASE e.status = 400 ->
            PhoenixErr("ValidationError", "VALIDATION_ERROR", 400, msg, NoHint, 0)
       [] e.status = 401 ->
            PhoenixErr("AuthenticationError", "AUTHENTICATION_ERROR", 401, msg, NoHint, 0)
       [] e.status = 403 ->
            PhoenixErr("AuthorizationError", "AUTHORIZATION_ERROR", 403, msg, NoHint, 0)
       [] e.status = 404 ->
            PhoenixErr("ResourceNotFoundError", "RESOURCE_NOT_FOUND", 404, msg, NoHint, 0)
       [] e.status = 409 ->
            IF Includes(msg, ProjectExistsText)
            THEN PhoenixErr("ProjectExistsError", "PROJECT_EXISTS", 409,
                            ProjectId(msg), NoHint, 0)
            ELSE PhoenixErr("PhoenixError", "CONFLICT", 409, msg, NoHint, 0)
       [] e.status = 429 ->
            PhoenixErr("RateLimitError", "RATE_LIMIT_ERROR", 429, <<>>,
                       HintOf(e.header), 0)
       [] e.status = 503 ->
            PhoenixErr("ServiceUnavailableError", "SERVICE_UNAVAILABLE", 503,
                       <<>>, HintOf(e.header), 0)
       [] e.status = NoStatus ->
            PhoenixErr("PhoenixError", "CONNECTION_ERROR", NoStatus, msg, NoHint, 0)
       [] OTHER ->
            PhoenixErr("PhoenixError", HttpCode(e.status), e.status, msg, NoHint, 0)

\* axios.isAxiosError(error)
IsAxiosError(e) == e.kind = "error" /\ e.name = "AxiosError"

\* RequestCatch that classifies whatever was thrown
RequestCatchAlways(e) == IF e.kind = "error" THEN HandleAxiosError(e) ELSE e

\* the catch clause of request(): an AxiosError is converted, anything else
\* is thrown again as it is
RequestCatch(e) == IF IsAxiosError(e) THEN HandleAxiosError(e) ELSE e

(* ----------------------------- construction ---------------------------- *)

HttpPrefix == <<"h", "t", "t", "p", ":", "/", "/">>
HttpsPrefix == <<"h", "t", "t", "p", "s", ":", "/", "/">>
DefaultUrl == <<"h", "t", "t", "p", ":", "/", "/", "l", "o", "c", "a", "l", "h", "o", "s", "t">>
RootPath == <<"/", "p", "h", "o", "e", "n", "i", "x">>

\* s.startsWith(t)
StartsWith(s, t) == Len(s) >= Len(t) /\ SubSeq(s, 1, Len(t)) = t

RECURSIVE DecStr(_)
\* `${n}` of a non-negative integer
DecStr(n) ==
  IF n < 10 THEN <<Digits[n + 1]>>
  ELSE DecStr(n \div 10) \o <<Digits[(n % 10) + 1]>>

\* config.port || 8022
PortOf(c) == IF c.port = Undefined \/ c.port = 0 THEN 8022 ELSE c.port

\* NormalizeUrl that always adds the prefix
NormalizeUrlAlways(u) == HttpPrefix \o u

\* the protocol check of the constructor; u is never empty here
NormalizeUrl(u) ==
  IF u # <<>> /\ ~StartsWith(u, HttpPrefix) /\ ~StartsWith(u, HttpsPrefix)
  THEN HttpPrefix \o u
  ELSE u

\* baseURL handed to axios.create: `${url}:${port}/phoenix`
BaseUrlOf(c) ==
  LET url == IF c.baseURL = <<>> THEN DefaultUrl ELSE c.baseURL
  IN NormalizeUrl(url) \o <<":">> \o DecStr(PortOf(c)) \o RootPath

\* config.timeout || 30000
RequestTimeoutOf(c) ==
  IF c.timeout = Undefined \/ c.timeout = 0 THEN 30000 ELSE c.timeout

DefaultHeaders == [n \in {"Content-Type"} |-> "application/json"]

\* MergeHeaders with the spread first: the default wins
MergeHeadersDefaultWins(d, h) ==
  [n \in (DOMAIN d) \cup (DOMAIN h) |-> IF n \in DOMAIN d THEN d[n] ELSE h[n]]

\* { ...d, ...h }
MergeHeaders(d, h) ==
  [n \in (DOMAIN d) \cup (DOMAIN h) |-> IF n \in DOMAIN h THEN h[n] ELSE d[n]]

\* new PhoenixClient(c): the argument and what axios.create is given
NewClient(c) ==
  [made |-> TRUE, config |-> c, baseURL |-> BaseUrlOf(c),
   timeout |-> RequestTimeoutOf(c),
   headers |-> MergeHeaders(DefaultHeaders, c.headers)]

\* new PhoenixClient(): every option omitted
EmptyConfig ==
  [baseURL |-> <<>>, port |-> Undefined, timeout |-> Undefined,
   headers |-> [n \in {} |-> ""]]

\* no client constructed yet
NoClient ==
  [made |-> FALSE, config |-> EmptyConfig, baseURL |-> <<>>, timeout |-> 0,
   headers |-> [n \in {} |-> ""]]

(* --------------------------- domain methods ----------------------------- *)

\* the data argument of request(): undefined, a request body, a RetryConfig
\* object, or { ...retryConfig, params: queryParams }
NoData == [kind |-> "undefined", retry |-> FALSE, maxRetries |-> Undefined,
           timeoutMinutes |-> Undefined, body |-> ""]
Body(b) == [kind |-> "body", retry |-> FALSE, maxRetries |-> Undefined,
            timeoutMinutes |-> Undefined, body |-> b]
ConfigAsData(c) ==
  IF ~c.retry THEN NoData
  ELSE [kind |-> "retryConfig", retry |-> TRUE, maxRetries |-> c.maxRetries,
        timeoutMinutes |-> c.timeoutMinutes, body |-> ""]
SpreadData(c, q) ==
  [kind |-> "spread", retry |-> c.retry, maxRetries |-> c.maxRetries,
   timeoutMinutes |-> c.timeoutMinutes, body |-> q]

\* retryConfig omitted
NoRetry == [retry |-> FALSE, maxRetries |-> Undefined, timeoutMinutes |-> Undefined]

\* the arguments of one call of PhoenixClient.request
Args(v, u, dt, c) == [verb |-> v, url |-> u, data |-> dt, retryConfig |-> c]

\* the arguments the domain method m hands to this.client.request, for
\* the project pid, the request body b, the query parameters q and the
\* retryConfig c of the caller
ApiArgs(m, pid, b, q, c) ==
  CASE m = "getJobs" -> Args("GET", <<"/jobs/">>, NoData, NoRetry)
    [] m = "createJob" -> Args("POST", <<"/jobs">>, Body(b), c)
    [] m = "getJob" -> Args("GET", <<"/jobs/", pid>>, NoData, NoRetry)
    [] m = "updateJob" -> Args("PATCH", <<"/jobs/", pid>>, Body(b), NoRetry)
    [] m = "exportJson" ->
         Args("POST", <<"/jobs/", pid, "/export/report/json">>, Body(b), c)
    [] m = "getLayouts" ->
         Args("GET", <<"/jobs/", pid, "/layouts">>, ConfigAsData(c), NoRetry)
    [] m = "getProducts" ->
         Args("GET", <<"/jobs/", pid, "/products">>, SpreadData(c, q), NoRetry)

\* the domain methods that have a retryConfig parameter
TakesRetryConfig(m) ==
  m \in {"createJob", "exportJson", "getLayouts", "getProducts"}

\* ApiReturn that swallows an error of the client
ApiReturnSwallow(r) == IF r.kind = "error" THEN Response(NoStatus, Absent) ELSE r

\* return this.client.request(...): the promise of the client is the
\* promise of the domain method
ApiReturn(r) == r

\* SentTriple that leaves the body out
SentTripleNoData(a) == [method |-> a.verb, url |-> a.url, data |-> NoData]

\* SentTriple that sends the retry config of a retrying call as the body
SentTripleWithConfig(a) ==
  [method |-> a.verb, url |-> a.url,
   data |-> IF a.retryConfig.retry THEN ConfigAsData(a.retryConfig) ELSE a.data]

\* this.client.request<T>({ method, url, data })
SentTriple(a) == [method |-> a.verb, url |-> a.url, data |-> a.data]

NothingSent == [method |-> "", url |-> <<>>, data |-> NoData]

\* ResponseStatus that takes 429 for 503
ResponseStatusWith429(e) ==
  IF IsAxiosError(e) THEN (IF e.status = 429 THEN 503 ELSE e.status)
  ELSE NoStatus

\* error.response?.status
ResponseStatus(e) == IF IsAxiosError(e) THEN e.status ELSE NoStatus

(* ------------------- one call of request(), as a value ------------------ *)

\* The locals of one call of request() and of its retryRequest: the
\* arguments and the apiCall closure (req), start, retries, the wait in
\* progress and when its timer fires (wake), what the call ended with;
\* history: issued (Date.now() at the call), calls, sent, the waits begun
\* and the outcomes received (hist: <<outcome, time, Math.random() * 1000>>).
NoSession ==
  [pc |-> "idle", req |-> Args("", <<>>, NoData, NoRetry), issued |-> 0,
   start |-> 0, retries |-> 0, waitMs |-> 0, wake |-> 0, result |-> NoResult,
   calls |-> 0, sent |-> NothingSent, waits |-> <<>>, hist |-> <<>>]

CallIds == {1, 2}

\* request(a.verb, a.url, a.data, a.retryConfig) at time t, up to the first
\* exchange
SessionBegin(a, t) ==
  [NoSession EXCEPT !.pc = "attempting", !.req = a, !.start = t]

\* the call returns r or throws it
SessionFinish(s, r) == [s EXCEPT !.pc = "done", !.result = r]

\* retries++ ; await this.wait(w), begun at time t
SessionSleep(s, w, t) ==
  [s EXCEPT !.pc = "waiting", !.retries = @ + 1, !.waitMs = w,
            !.wake = t + Max(w, 0), !.waits = Append(@, w)]

\* the timer of this.wait fires
SessionWake(s) == [s EXCEPT !.pc = "attempting"]

\* the catch clause of retryRequest, then that of request(), for the
\* thrown value e at time t
SessionCatch(s, e, t, jit) ==
  LET c == s.req.retryConfig
  IN IF ResponseStatus(e) = 503
     THEN IF Exhausted(c, s.retries) THEN SessionFinish(s, RequestCatch(e))
          ELSE IF ThrownTimedOut(t - s.start, c)
               THEN SessionFinish(s, RequestCatch(TimeoutError(TimeoutMinutes(c))))
               ELSE SessionSleep(s, Backoff(s.retries, jit), t)
     ELSE IF IsAxiosError(e)
          THEN SessionFinish(s, RequestCatch(HandleAxiosError(e)))
          ELSE SessionFinish(s, RequestCatch(e))

\* the exchange of the call s ends at time t with the outcome o: request()
\* and retryRequest run to their return, their throw or their next wait
SessionOutcome(s, o, t, jit) ==
  LET c == s.req.retryConfig
      s1 == [s EXCEPT !.calls = @ + 1, !.sent = SentTriple(s.req),
                      !.hist = Append(@, <<o, t, jit>>)]
  IN IF ~c.retry
     THEN SessionFinish(s1, IF o.kind = "response" THEN o ELSE RequestCatch(o))
     ELSE IF o.kind = "error" THEN SessionCatch(s1, o, t, jit)
     ELSE IF o.status # 503 THEN SessionFinish(s1, o)
     ELSE IF Exhausted(c, s1.retries) THEN SessionFinish(s1, o)
     ELSE LET w == ResponseWaitMs(o.header, s1.retries, jit)
          IN IF ResponseTimedOut(t - s1.start, w, c)
             THEN SessionCatch(s1, TimeoutError(TimeoutMinutes(c)), t, jit)
             ELSE SessionSleep(s1, w, t)

\* Locals with retries kept in one field of the client, shared by its calls
LocalsShared(ss, i) ==
  [ss[i] EXCEPT !.retries = Max(ss[1].retries, ss[2].retries)]

\* what the call i reads and writes: its own arguments, closure and locals
Locals(ss, i) == ss[i]

(* ------------------------------- inputs --------------------------------- *)

\* retry-after headers a server sends
Headers ==
  {Absent, Hdr(<<"0">>), Hdr(<<"5">>), Hdr(<<"x">>), Hdr(<<"-", "1">>),
   Hdr(<<"7", "0", "0">>)}

\* errors[0].text of a 409 body
ConflictTexts ==
  {<<"P", "r", "o", "j", "e", "c", "t", " ", "a", "l", "r", "e", "a", "d", "y", " ", "e", "x", "i", "s", "t", "s", " ", "w", "i", "t", "h", " ", "I", "D", ":", " ", "X">>,
   <<"c", "o", "n", "f", "l", "i", "c", "t">>}

\* an exchange that ends with a response object
ResponseOutcomes ==
  {Response(st, Absent) : st \in {200, 201, 400}}
    \cup {Response(503, h) : h \in Headers}

\* an exchange that ends with a thrown AxiosError, with or without a response
ErrorOutcomes ==
  {AxiosError(st, Absent, <<>>) : st \in {400, 401, 403, 404, 500, 502, NoStatus}}
    \cup {AxiosError(409, Absent, t) : t \in ConflictTexts}
    \cup {AxiosError(429, h, <<>>) : h \in {Absent, Hdr(<<"5">>), Hdr(<<"x">>)}}
    \cup {AxiosError(503, h, <<>>) : h \in {Absent, Hdr(<<"5">>)}}

\* a value thrown by the exchange that is no AxiosError (a TypeError raised
\* while the request is prepared, say)
RawError ==
  [kind |-> "error", name |-> "TypeError", code |-> "", status |-> NoStatus,
   header |-> Absent, text |-> <<>>, retryAfter |-> NoHint, minutes |-> 0]

\* everything an exchange can throw
ThrownOutcomes == ErrorOutcomes \cup {RawError}

Outcomes == ResponseOutcomes \cup ThrownOutcomes

\* how long one exchange takes
Durations == {0, 30000}

\* values of Math.random() * 1000
Jitters == {0, 999}

\* Date.now() when the request is made
StartTimes == {7000}

\* the retryConfig argument of request(); retry = FALSE is no argument
RetryConfigs ==
  {[retry |-> TRUE, maxRetries |-> m, timeoutMinutes |-> t] :
     m \in {Undefined} \cup (0..MaxRetriesCfg), t \in {Undefined, 0, 1}}
Configs == {NoRetry} \cup RetryConfigs

\* direct calls of PhoenixClient.request: (verb, url, data)
Requests ==
  {Args("GET", <<"/test">>, NoData, NoRetry),
   Args("POST", <<"/jobs">>, Body("job"), NoRetry)}
TestRequest == Args("GET", <<"/test">>, NoData, NoRetry)

\* calls of the domain methods
ApiMethods ==
  {"getJobs", "createJob", "getJob", "updateJob", "exportJson", "getLayouts",
   "getProducts"}
ApiConfigs ==
  {NoRetry, [retry |-> TRUE, maxRetries |-> 1, timeoutMinutes |-> 1]}
ProjectIds == {"project-123"}

\* arguments of new PhoenixClient(config)
ClientConfigs ==
  [baseURL : {<<>>, <<"m", "y", "h", "o", "s", "t">>,
              <<"h", "t", "t", "p", ":", "/", "/", "m", "y", "h", "o", "s", "t">>,
              <<"h", "t", "t", "p", "s", ":", "/", "/", "m", "y", "h", "o", "s", "t">>},
   port : {Undefined, 0, 8022, 9000},
   timeout : {Undefined, 0, 60000},
   headers : {[n \in {} |-> ""],
              [n \in {"Authorization"} |-> "Bearer token"],
              [n \in {"Content-Type"} |-> "text/plain"],
              [n \in {"Authorization", "Content-Type"} |->
                 IF n = "Authorization" THEN "Bearer token" ELSE "text/plain"]}]

(* -------------------------------- state --------------------------------- *)

VARIABLES
  pc,        \* "idle", "attempting" (an exchange in flight), "waiting", "done"
  cfg,       \* retryConfig of the request
  now,       \* Date.now()
  start,     \* start of retryRequest
  retries,   \* retries of retryRequest
  waitMs,    \* the wait in progress
  result,    \* what request() returned or threw
  calls,     \* history: exchanges made for the request
  last,      \* history: what the last exchange produced
  prevWait,  \* history: the wait before the one in progress
  slow,      \* history: some exchange of the request took time
  client,    \* the PhoenixClient: its config and what axios.create was given
  api,       \* the domain method called, "request" for a direct call
  supplied,  \* the retryConfig the caller gave
  req,       \* the arguments of request()
  requests,  \* history: calls of request()
  sent,      \* history: the { method, url, data } of the last exchange
  apiResult, \* what the domain method returned or threw
  sessions   \* the calls of request() in flight at once, by call

vars ==
  <<pc, cfg, now, start, retries, waitMs, result, calls, last, prevWait,
    slow, client, api, supplied, req, requests, sent, apiResult, sessions>>

\* everything but the client
InitCall ==
  /\ pc = "idle"
  /\ cfg = NoRetry
  /\ now \in StartTimes
  /\ start = 0
  /\ retries = 0
  /\ waitMs = 0
  /\ result = NoResult
  /\ calls = 0
  /\ last = NoResult
  /\ prevWait = 0
  /\ slow = FALSE
  /\ api = ""
  /\ supplied = NoRetry
  /\ req = Args("", <<>>, NoData, NoRetry)
  /\ requests = 0
  /\ sent = NothingSent
  /\ apiResult = NoResult
  /\ sessions = [i \in CallIds |-> NoSession]

\* a client made by new PhoenixClient()
Init == InitCall /\ client = NewClient(EmptyConfig)

\* new PhoenixClient(c)
Construct(c) ==
  /\ ~client.made
  /\ client' = NewClient(c)
  /\ UNCHANGED <<pc, cfg, now, start, retries, waitMs, result, calls, last,
                 prevWait, slow, api, supplied, req, requests, sent,
                 apiResult, sessions>>

\* request(a.verb, a.url, a.data, a.retryConfig) up to the first exchange
Begin(a) ==
  /\ pc = "idle"
  /\ client.made
  /\ pc' = "attempting"
  /\ req' = a
  /\ cfg' = a.retryConfig
  /\ start' = now
  /\ requests' = requests + 1
  /\ UNCHANGED <<now, retries, waitMs, result, calls, last, prevWait,
                 slow, client, sent, apiResult, sessions>>

\* a direct call client.request(q.verb, q.url, q.data, c)
Request(q, c) ==
  /\ Begin(Args(q.verb, q.url, q.data, c))
  /\ api' = "request"
  /\ supplied' = c

\* a call of the domain method m with the retryConfig c
ApiCall(m, pid, c) ==
  /\ Begin(ApiArgs(m, pid, "body", "query",
                   IF TakesRetryConfig(m) THEN c ELSE NoRetry))
  /\ api' = m
  /\ supplied' = IF TakesRetryConfig(m) THEN c ELSE NoRetry

\* request() returns r or throws it
Finish(r) ==
  /\ pc' = "done"
  /\ result' = r
  /\ apiResult' = IF api = "request" THEN NoResult ELSE ApiReturn(r)
  /\ UNCHANGED <<retries, waitMs, prevWait>>

\* Sleep that counts the retry twice
SleepTwice(w) ==
  /\ pc' = "waiting"
  /\ retries' = retries + 2
  /\ waitMs' = w
  /\ prevWait' = waitMs
  /\ UNCHANGED <<result, apiResult>>

\* retries++ ; await this.wait(w)
Sleep(w) ==
  /\ pc' = "waiting"
  /\ retries' = retries + 1
  /\ waitMs' = w
  /\ prevWait' = waitMs
  /\ UNCHANGED <<result, apiResult>>

\* bookkeeping of one exchange that took d and produced o
Exchange(o, d) ==
  /\ now' = now + d
  /\ calls' = calls + 1
  /\ last' = o
  /\ slow' = (slow \/ d > 0)
  /\ sent' = SentTriple(req)
  /\ UNCHANGED <<cfg, start, client, api, supplied, req, requests, sessions>>

\* RetryCatch that reads the retry-after header of the thrown 503
RetryCatchWithHint(e, jit) ==
  IF ResponseStatus(e) = 503
  THEN IF Exhausted(cfg, retries) THEN Finish(RequestCatch(e))
       ELSE IF ThrownTimedOut(now' - start, cfg)
            THEN Finish(RequestCatch(TimeoutError(TimeoutMinutes(cfg))))
            ELSE Sleep(ResponseWaitMs(e.header, retries, jit))
  ELSE IF IsAxiosError(e) THEN Finish(RequestCatch(HandleAxiosError(e)))
       ELSE Finish(RequestCatch(e))

\* RetryCatch that tests the time budget before the retry count
RetryCatchTimeoutFirst(e, jit) ==
  IF ResponseStatus(e) = 503
  THEN IF ThrownTimedOut(now' - start, cfg)
       THEN Finish(RequestCatch(TimeoutError(TimeoutMinutes(cfg))))
       ELSE IF Exhausted(cfg, retries) THEN Finish(RequestCatch(e))
            ELSE Sleep(Backoff(retries, jit))
  ELSE IF IsAxiosError(e) THEN Finish(RequestCatch(HandleAxiosError(e)))
       ELSE Finish(RequestCatch(e))

\* the catch clause of retryRequest for the thrown value e
RetryCatch(e, jit) ==
  IF ResponseStatus(e) = 503
  THEN IF Exhausted(cfg, retries) THEN Finish(RequestCatch(e))
       ELSE IF ThrownTimedOut(now' - start, cfg)
            THEN Finish(RequestCatch(TimeoutError(TimeoutMinutes(cfg))))
            ELSE Sleep(Backoff(retries, jit))
  ELSE IF IsAxiosError(e) THEN Finish(RequestCatch(HandleAxiosError(e)))
       ELSE Finish(RequestCatch(e))

\* DirectCall that waits and retries on a 503
DirectCallRetrying(o, d) ==
  /\ pc = "attempting"
  /\ ~cfg.retry
  /\ Exchange(o, d)
  /\ IF o.status = 503 THEN Sleep(Backoff(retries, 0))
     ELSE Finish(IF o.kind = "response" THEN o ELSE RequestCatch(o))

\* request() without a retryConfig: one exchange
DirectCall(o, d) ==
  /\ pc = "attempting"
  /\ ~cfg.retry
  /\ Exchange(o, d)
  /\ Finish(IF o.kind = "response" THEN o ELSE RequestCatch(o))

\* RetryResponse that tests the time budget before the status
RetryResponseTimeoutFirst(o, d, jit, cap) ==
  /\ pc = "attempting"
  /\ cfg.retry
  /\ calls < cap
  /\ o.kind = "response"
  /\ Exchange(o, d)
  /\ IF ThrownTimedOut(now' - start, cfg)
     THEN RetryCatch(TimeoutError(TimeoutMinutes(cfg)), jit)
     ELSE IF o.status # 503 THEN Finish(o)
     ELSE IF Exhausted(cfg, retries) THEN Finish(o)
     ELSE LET w == ResponseWaitMs(o.header, retries, jit)
          IN IF ResponseTimedOut(now' - start, w, cfg)
             THEN RetryCatch(TimeoutError(TimeoutMinutes(cfg)), jit)
             ELSE Sleep(w)

\* retryRequest: an exchange returns the response o; the try block runs to
\* its return, its throw or its wait
RetryResponse(o, d, jit, cap) ==
  /\ pc = "attempting"
  /\ cfg.retry
  /\ calls < cap
  /\ o.kind = "response"
  /\ Exchange(o, d)
  /\ IF o.status # 503 THEN Finish(o)
     ELSE IF Exhausted(cfg, retries) THEN Finish(o)
     ELSE LET w == ResponseWaitMs(o.header, retries, jit)
          IN IF ResponseTimedOut(now' - start, w, cfg)
             THEN RetryCatch(TimeoutError(TimeoutMinutes(cfg)), jit)
             ELSE Sleep(w)

\* retryRequest: an exchange throws o; the catch clause runs to its throw
\* or its wait
RetryThrown(o, d, jit, cap) ==
  /\ pc = "attempting"
  /\ cfg.retry
  /\ calls < cap
  /\ o.kind = "error"
  /\ Exchange(o, d)
  /\ RetryCatch(o, jit)

\* WaitDone that goes on waiting when the timer fires
WaitDoneWaitsAgain ==
  /\ pc = "waiting"
  /\ pc' = "waiting"
  /\ now' = now + Max(waitMs, 0)
  /\ UNCHANGED <<cfg, start, retries, waitMs, result, calls, last, prevWait,
                 slow, client, api, supplied, req, requests, sent, apiResult,
                 sessions>>

\* this.wait(ms): the timer fires and the loop starts the next exchange
WaitDone ==
  /\ pc = "waiting"
  /\ pc' = "attempting"
  /\ now' = now + Max(waitMs, 0)
  /\ UNCHANGED <<cfg, start, retries, waitMs, result, calls, last, prevWait,
                 slow, client, api, supplied, req, requests, sent, apiResult,
                 sessions>>

Next ==
  \/ \E q \in Requests, c \in Configs : Request(q, c)
  \/ \E m \in ApiMethods, pid \in ProjectIds, c \in ApiConfigs :
       ApiCall(m, pid, c)
  \/ \E o \in Outcomes, d \in Durations : DirectCall(o, d)
  \/ \E o \in ResponseOutcomes, d \in Durations, jit \in Jitters :
       RetryResponse(o, d, jit, MaxCalls)
  \/ \E o \in ThrownOutcomes, d \in Durations, jit \in Jitters :
       RetryThrown(o, d, jit, MaxCalls)
  \/ WaitDone

Spec == Init /\ [][Next]_vars

(* ----------------- scenario A: always 503, retry-after: 2 --------------- *)

ConfigA == [retry |-> TRUE, maxRetries |-> Undefined, timeoutMinutes |-> 1]
HeaderA == Hdr(<<"2">>)
DurationsA == {0, 1000}

NextA ==
  \/ Request(TestRequest, ConfigA)
  \/ \E d \in DurationsA, jit \in Jitters :
       RetryResponse(Response(503, HeaderA), d, jit, MaxCallsA)
  \/ \E d \in DurationsA, jit \in Jitters :
       RetryThrown(AxiosError(503, HeaderA, <<>>), d, jit, MaxCallsA)
  \/ WaitDone

\* every exchange completes and every timer fires
SpecA == Init /\ [][NextA]_vars /\ WF_vars(NextA)

(* ------------- scenario B: always 503, no retry-after header ------------ *)

ConfigB == [retry |-> TRUE, maxRetries |-> Undefined, timeoutMinutes |-> Undefined]

NextB ==
  \/ Request(TestRequest, ConfigB)
  \/ \E d \in DurationsA, jit \in Jitters :
       RetryResponse(Response(503, Absent), d, jit, MaxCallsB)
  \/ \E d \in DurationsA, jit \in Jitters :
       RetryThrown(AxiosError(503, Absent, <<>>), d, jit, MaxCallsB)
  \/ WaitDone

SpecB == Init /\ [][NextB]_vars

(* ---------------- two calls in flight on the same client --------------- *)

OutcomesP ==
  {Response(200, Absent), Response(503, Hdr(<<"5">>)),
   AxiosError(503, Absent, <<>>)}

ConfigsP ==
  {NoRetry, [retry |-> TRUE, maxRetries |-> Undefined, timeoutMinutes |-> 1]}

JittersP == {999}

\* the first call is GET /test, the second POST /jobs with a body
RequestOf(i) ==
  IF i = 1 THEN Args("GET", <<"/test">>, NoData, NoRetry)
  ELSE Args("POST", <<"/jobs">>, Body("job"), NoRetry)

\* the call i is made
Issue(i, c) ==
  /\ client.made
  /\ sessions[i].pc = "idle"
  /\ sessions' = [sessions EXCEPT
                    ![i] = [SessionBegin(Args(RequestOf(i).verb, RequestOf(i).url,
                                              RequestOf(i).data, c), now)
                              EXCEPT !.issued = now]]
  /\ UNCHANGED <<pc, cfg, now, start, retries, waitMs, result, calls, last,
                 prevWait, slow, client, api, supplied, req, requests, sent,
                 apiResult>>

\* the exchange of the call i ends, d after the last event
Complete(i, o, d, jit) ==
  /\ sessions[i].pc = "attempting"
  /\ sessions[i].calls < MaxCallsP
  /\ now' = now + d
  /\ sessions' = [sessions EXCEPT
                    ![i] = SessionOutcome(Locals(sessions, i), o, now', jit)]
  /\ UNCHANGED <<pc, cfg, start, retries, waitMs, result, calls, last,
                 prevWait, slow, client, api, supplied, req, requests, sent,
                 apiResult>>

\* the timer of the call i fires, no earlier than its delay
Timer(i) ==
  /\ sessions[i].pc = "waiting"
  /\ now' = Max(now, sessions[i].wake)
  /\ sessions' = [sessions EXCEPT ![i] = SessionWake(Locals(sessions, i))]
  /\ UNCHANGED <<pc, cfg, start, retries, waitMs, result, calls, last,
                 prevWait, slow, client, api, supplied, req, requests, sent,
                 apiResult>>

NextP ==
  \/ \E i \in CallIds, c \in ConfigsP : Issue(i, c)
  \/ \E i \in CallIds, o \in OutcomesP, d \in Durations, jit \in JittersP :
       Complete(i, o, d, jit)
  \/ \E i \in CallIds : Timer(i)

SpecP == Init /\ [][NextP]_vars

(* --------------------- construction of the client ----------------------- *)

InitC == InitCall /\ client = NoClient

NextC == \E c \in ClientConfigs : Construct(c)

SpecC == InitC /\ [][NextC]_vars

(* ------------------------------- claims --------------------------------- *)

Is503(o) == o.kind # "none" /\ o.status = 503
Elapsed == now - start

\* C1: with a retry config whose maxRetries is a finite N >= 0, a request
\* makes at most N + 1 transport calls (N retries), whatever mix of 503
\* responses and thrown 503s it meets.
C1_AtMostNRetries ==
  (cfg.retry /\ cfg.maxRetries # Undefined)
    => (calls <= cfg.maxRetries + 1 /\ retries <= cfg.maxRetries)

C1_Witness ==
  /\ pc = "done" /\ cfg.retry /\ cfg.maxRetries = 1
  /\ calls = 2 /\ retries = 1 /\ Is503(last)

\* C2 (as claimed): no wait the controller commits to ends at or after the
\* deadline of the session: a 503 that arrives when elapsed + wait >= the
\* total timeout ends in TimeoutError without sleeping.
C2_NoWaitPastDeadline ==
  (pc = "waiting") => (Elapsed + waitMs < TimeoutMs(cfg))

\* C3: without a retry config a request makes exactly one exchange and
\* never waits, and a 503 response is returned as it is.
C3_NoRetryWithoutConfig ==
  (~cfg.retry)
    => /\ pc # "waiting" /\ retries = 0 /\ calls <= 1
       /\ (pc = "done" => calls = 1)
       /\ (pc = "done" /\ last.kind = "response" => result = last)

C3_Witness ==
  /\ ~cfg.retry /\ pc = "done" /\ calls = 1
  /\ result = last /\ result.kind = "response" /\ result.status = 503

\* C4: a thrown failure other than 503 (400, 404, 409, 429, no response...)
\* is never retried: the request is over with that exchange, no wait
\* follows, and the error raised is the classification of that failure,
\* also after earlier 503 retries.  (The failures of the claim are those
\* of the exchange, AxiosErrors; any other thrown value ends the request
\* in the same way.)
C4_NonBusyFailureNotRetried ==
  (calls > 0 /\ last.kind = "error" /\ last.status # 503)
    => /\ pc = "done"
       /\ result.kind = "error"
       /\ result.name \notin {"TimeoutError", "ServiceUnavailableError"}
       /\ result.status = last.status
       /\ IsAxiosError(last)
            => (result.name # "AxiosError" /\ result = HandleAxiosError(last))

C4_Witness ==
  /\ cfg.retry /\ pc = "done" /\ retries > 0
  /\ last.kind = "error" /\ last.status = 429
  /\ result.name = "RateLimitError"

\* C5: after a 503 response carrying retry-after: k (k = 1..9, 5 in the
\* inputs) the wait is k seconds; for k = 5 that is no value the backoff
\* formula can give.
C5_RetryAfterHonoured ==
  (pc = "waiting" /\ last.kind = "response")
    => /\ \A k \in 1..9 :
            (last.header = Hdr(<<Digits[k + 1]>>)) => (waitMs = k * 1000)
       /\ (last.header = Hdr(<<"5">>))
            => \A jit \in {0, 999} :
                  waitMs # Min(30000, 2000 * 2 ^ (retries - 1) + jit)

C5_Witness ==
  /\ pc = "waiting" /\ last = Response(503, Hdr(<<"5">>)) /\ waitMs = 5000

\* C6 (as claimed): after a 503 response whose retry-after is zero or
\* unparsable the wait is the backoff value, at least 2 s.
C6_ZeroOrUnparsableBacksOff ==
  (pc = "waiting" /\ last.kind = "response"
     /\ last.header \in {Hdr(<<"0">>), Hdr(<<"x">>)})
    => (waitMs >= 2000)

\* C7: against 503s without a retry-after header the wait before retry
\* number a is min(30 s, 2 s * 2^a + jitter), 0 <= jitter < 1 s; the waits
\* of a session never decrease and never exceed 30 s.
C7_BackoffShape ==
  (pc = "waiting")
    => /\ \E jit \in 0..999 :
            waitMs = Min(30000, 2000 * 2 ^ (retries - 1) + jit)
       /\ waitMs <= 30000
       /\ (retries >= 2 => prevWait <= waitMs)

C7_Witness ==
  /\ pc = "waiting" /\ retries = 5 /\ waitMs = 30000 /\ prevWait = 16999

\* C8: in scenario A the request eventually fails with TimeoutError, and it
\* never ends with the 503 response or with ServiceUnavailableError.
C8_ScenarioATimesOut ==
  /\ <>(pc = "done" /\ result.name = "TimeoutError")
  /\ [](pc = "done" => result.name = "TimeoutError")

C8_Witness ==
  /\ pc = "done" /\ cfg = ConfigA /\ result = TimeoutError(1)
  /\ Is503(last) /\ last.header = HeaderA

\* C9 (as claimed): in scenario A with exchanges that take no time the
\* request makes 29 or 30 retries, each after a 2-second wait, before it
\* fails with TimeoutError.
C9_ScenarioAThirtyRetries ==
  /\ (pc = "done" /\ ~slow) => retries \in {29, 30}
  /\ (pc = "waiting") => waitMs = 2000

\* C10: with maxRetries = 0 a first 503 ends the request at once: one
\* exchange, no wait, and the outcome is that 503 (the response, or
\* ServiceUnavailableError for a thrown 503).
C10_ZeroRetriesHonoured ==
  (cfg.retry /\ cfg.maxRetries = 0 /\ calls > 0 /\ Is503(last))
    => /\ pc = "done" /\ calls = 1 /\ retries = 0
       /\ (last.kind = "response" => result = last)
       /\ (last.kind = "error"
             => result.name = "ServiceUnavailableError" /\ result.status = 503)

C10_Witness ==
  /\ cfg.retry /\ cfg.maxRetries = 0 /\ pc = "done" /\ calls = 1
  /\ last.kind = "error" /\ result.name = "ServiceUnavailableError"

\* C11: without a retry config a request whose first exchange succeeds
\* (200 / 201) is over at once: one exchange, made with the { method, url,
\* data } of the request, no wait, and the value returned is the response
\* the exchange produced.
C11_DirectSuccess ==
  (~cfg.retry /\ pc = "done" /\ last.kind = "response"
     /\ last.status \in {200, 201})
    => /\ calls = 1 /\ retries = 0 /\ waitMs = 0 /\ prevWait = 0
       /\ result = last
       /\ sent = [method |-> req.verb, url |-> req.url, data |-> req.data]

C11_Witness ==
  /\ api = "request" /\ ~cfg.retry /\ pc = "done" /\ calls = 1
  /\ result = Response(201, Absent)
  /\ sent = [method |-> "POST", url |-> <<"/jobs">>, data |-> Body("job")]

ScenarioDText == <<"P", "r", "o", "j", "e", "c", "t", " ", "a", "l", "r", "e", "a", "d", "y", " ", "e", "x", "i", "s", "t", "s", " ", "w", "i", "t", "h", " ", "I", "D", ":", " ", "X">>

\* C12 (as claimed): a 409 whose message is "Project already exists with
\* ID: X" ends in ProjectExistsError carrying the identifier X.
C12_ProjectExistsCarriesId ==
  (pc = "done" /\ IsAxiosError(last) /\ last.status = 409
     /\ last.text = ScenarioDText)
    => (result.name = "ProjectExistsError" /\ result.text = <<"X">>)

\* the largest wait the controller can compute after the last outcome
C13_NextWait ==
  IF last.kind = "response" /\ last.header = Hdr(<<"0">>) THEN 0
  ELSE IF last.kind = "response" /\ last.header = Hdr(<<"5">>) THEN 5000
  ELSE IF last.kind = "response" /\ last.header = Hdr(<<"-", "1">>) THEN 0 - 1000
  ELSE IF last.kind = "response" /\ last.header = Hdr(<<"7", "0", "0">>) THEN 700000
  ELSE IF retries >= 4 THEN 30000 ELSE 2000 * 2 ^ retries + 999

C13_Budget ==
  IF cfg.timeoutMinutes \in {Undefined, 0} THEN 600000
  ELSE cfg.timeoutMinutes * 60000

\* C13: TimeoutError comes from the retry controller only, and only right
\* after a 503 outcome when a further wait would reach or pass the total
\* timeout; never without a retry config, never without a 503.
C13_TimeoutOnlyFromController ==
  (result.name = "TimeoutError")
    => /\ pc = "done" /\ cfg.retry
       /\ Is503(last)
       /\ Elapsed + C13_NextWait >= C13_Budget

C13_Witness ==
  /\ pc = "done" /\ result.name = "TimeoutError" /\ cfg.retry
  /\ last.kind = "error" /\ last.status = 503 /\ retries > 0

\* the class name and the code that the claim gives to a status
C14_Class(st, txt) ==
  CASE st = 400 -> <<"ValidationError", "VALIDATION_ERROR">>
    [] st = 401 -> <<"AuthenticationError", "AUTHENTICATION_ERROR">>
    [] st = 403 -> <<"AuthorizationError", "AUTHORIZATION_ERROR">>
    [] st = 404 -> <<"ResourceNotFoundError", "RESOURCE_NOT_FOUND">>
    [] st = 409 /\ txt = ScenarioDText -> <<"ProjectExistsError", "PROJECT_EXISTS">>
    [] st = 409 /\ txt # ScenarioDText -> <<"PhoenixError", "CONFLICT">>
    [] st = 429 -> <<"RateLimitError", "RATE_LIMIT_ERROR">>
    [] st = 503 -> <<"ServiceUnavailableError", "SERVICE_UNAVAILABLE">>
    [] st = NoStatus -> <<"PhoenixError", "CONNECTION_ERROR">>
    [] st = 500 -> <<"PhoenixError", "HTTP_500">>
    [] st = 502 -> <<"PhoenixError", "HTTP_502">>

\* C14: a failed exchange is classified by its status: 400, 401, 403, 404,
\* 409 (duplicate project or CONFLICT), 429, 503, no response, and any
\* other status s as code HTTP_s with statusCode s; one kind per failure.
C14_ClassifiedByStatus ==
  (pc = "done" /\ IsAxiosError(last) /\ result.name # "TimeoutError")
    => /\ result.kind = "error"
       /\ <<result.name, result.code>> = C14_Class(last.status, last.text)
       /\ result.status = last.status

C14_Witness ==
  /\ pc = "done" /\ IsAxiosError(last) /\ last.status = 502
  /\ result.name = "PhoenixError" /\ result.code = "HTTP_502"
  /\ result.status = 502

\* C15 (as claimed): a RateLimitError / ServiceUnavailableError carries an
\* integer number of seconds whenever the response has a retry-after
\* header, and no hint when it has none.
C15_HintIsInteger ==
  (pc = "done" /\ result.name \in {"RateLimitError", "ServiceUnavailableError"})
    => IF last.header.has
       THEN result.retryAfter.def /\ ~result.retryAfter.nan
       ELSE ~result.retryAfter.def

Taxonomy ==
  {"PhoenixError", "ProjectExistsError", "ResourceNotFoundError",
   "ValidationError", "ServiceUnavailableError", "TimeoutError",
   "AuthenticationError", "AuthorizationError", "RateLimitError"}

\* C16 (as claimed): request() ends with a response or with one error of
\* the taxonomy; no AxiosError and no other raw thrown value reaches the
\* caller.
C16_NoRawError ==
  (pc = "done")
    => \/ result.kind = "response"
       \/ result.kind = "error" /\ result.name \in Taxonomy

\* the host part and the port part the claim expects for a config
C17_Url(c) ==
  IF c.baseURL = <<>> THEN <<"h", "t", "t", "p", ":", "/", "/", "l", "o", "c", "a", "l", "h", "o", "s", "t">>
  ELSE IF c.baseURL = <<"m", "y", "h", "o", "s", "t">> THEN <<"h", "t", "t", "p", ":", "/", "/", "m", "y", "h", "o", "s", "t">>
  ELSE c.baseURL

C17_Port(c) == IF c.port = 9000 THEN <<"9", "0", "0", "0">> ELSE <<"8", "0", "2", "2">>

\* C17: the base address is scheme://host:port/phoenix: "myhost" with port
\* 8022 gives http://myhost:8022/phoenix, an address that starts with
\* http:// or https:// keeps its scheme, and no prefix is added twice.
C17_BaseUrlComposed ==
  client.made
    => LET c == client.config
       IN /\ client.baseURL = C17_Url(c) \o <<":">> \o C17_Port(c) \o <<"/", "p", "h", "o", "e", "n", "i", "x">>
          /\ (c.baseURL = <<"m", "y", "h", "o", "s", "t">> /\ c.port = 8022)
               => client.baseURL = <<"h", "t", "t", "p", ":", "/", "/", "m", "y", "h", "o", "s", "t", ":", "8", "0", "2", "2", "/", "p", "h", "o", "e", "n", "i", "x">>
          /\ (c.baseURL = <<"h", "t", "t", "p", "s", ":", "/", "/", "m", "y", "h", "o", "s", "t">> /\ c.port = 8022)
               => client.baseURL = <<"h", "t", "t", "p", "s", ":", "/", "/", "m", "y", "h", "o", "s", "t", ":", "8", "0", "2", "2", "/", "p", "h", "o", "e", "n", "i", "x">>
          /\ ~StartsWith(client.baseURL, <<"h", "t", "t", "p", ":", "/", "/", "h", "t", "t", "p">>)

C17_Witness ==
  /\ client.made /\ client.config.baseURL = <<"h", "t", "t", "p", "s", ":", "/", "/", "m", "y", "h", "o", "s", "t">>
  /\ client.config.port = Undefined
  /\ client.baseURL = <<"h", "t", "t", "p", "s", ":", "/", "/", "m", "y", "h", "o", "s", "t", ":", "8", "0", "2", "2", "/", "p", "h", "o", "e", "n", "i", "x">>

\* s ends with t
C18_EndsWith(s, t) ==
  Len(s) >= Len(t) /\ SubSeq(s, Len(s) - Len(t) + 1, Len(s)) = t

\* C18: every omitted option gets its default (http://localhost, 8022,
\* 30000 ms, Content-Type: application/json) and the caller's headers are
\* merged over the default header: a new header is added, a supplied
\* Content-Type replaces the default.
C18_DefaultsAndHeaders ==
  client.made
    => LET c == client.config
       IN /\ (c.baseURL = <<>>) => StartsWith(client.baseURL, <<"h", "t", "t", "p", ":", "/", "/", "l", "o", "c", "a", "l", "h", "o", "s", "t", ":">>)
          /\ (c.port = Undefined) => C18_EndsWith(client.baseURL, <<":", "8", "0", "2", "2", "/", "p", "h", "o", "e", "n", "i", "x">>)
          /\ (c.timeout = Undefined) => client.timeout = 30000
          /\ (c = EmptyConfig) => client.baseURL = <<"h", "t", "t", "p", ":", "/", "/", "l", "o", "c", "a", "l", "h", "o", "s", "t", ":", "8", "0", "2", "2", "/", "p", "h", "o", "e", "n", "i", "x">>
          /\ DOMAIN client.headers = {"Content-Type"} \cup DOMAIN c.headers
          /\ \A n \in DOMAIN c.headers : client.headers[n] = c.headers[n]
          /\ ("Content-Type" \notin DOMAIN c.headers)
               => client.headers["Content-Type"] = "application/json"

C18_Witness ==
  /\ client.made /\ client.config.timeout = Undefined
  /\ client.config.baseURL = <<>>
  /\ DOMAIN client.config.headers = {"Authorization", "Content-Type"}
  /\ client.headers["Content-Type"] = "text/plain"
  /\ client.headers["Authorization"] = "Bearer token"
  /\ client.timeout = 30000

\* C19 (as claimed): a retry config given to a domain method that has a
\* retryConfig parameter reaches request() as its retry policy, not as the
\* request body.
C19_RetryConfigReachesController ==
  (api \notin {"", "request"} /\ TakesRetryConfig(api) /\ supplied.retry)
    => /\ cfg = supplied
       /\ req.data.kind \notin {"retryConfig", "spread"}

\* the verb and the path of a domain method
C20_Verb(m) ==
  CASE m \in {"getJobs", "getJob", "getLayouts", "getProducts"} -> "GET"
    [] m \in {"createJob", "exportJson"} -> "POST"
    [] m = "updateJob" -> "PATCH"

C20_Path(m) ==
  CASE m = "getJobs" -> <<"/jobs/">>
    [] m = "createJob" -> <<"/jobs">>
    [] m \in {"getJob", "updateJob"} -> <<"/jobs/", "project-123">>
    [] m = "exportJson" -> <<"/jobs/", "project-123", "/export/report/json">>
    [] m = "getLayouts" -> <<"/jobs/", "project-123", "/layouts">>
    [] m = "getProducts" -> <<"/jobs/", "project-123", "/products">>

\* C20: a domain method calls request() exactly once, with its verb and
\* its path, and what it returns or throws is what the client returned or
\* threw, unchanged.
C20_DomainMethodsPassThrough ==
  (api \notin {"", "request"})
    => /\ requests = 1
       /\ req.verb = C20_Verb(api) /\ req.url = C20_Path(api)
       /\ (pc = "done") => apiResult = result
       /\ (pc # "done") => apiResult = NoResult

C20_Witness ==
  /\ api = "getJob" /\ pc = "done" /\ requests = 1
  /\ result.name = "ResourceNotFoundError"
  /\ apiResult = result

\* C22 (as claimed): the exchange raises only when no response was
\* received; a response the server returns, non-2xx included, comes back as
\* a response value, so a call without retry config fails only when the
\* failure has no status.
C22_RaisesOnlyWithoutResponse ==
  (pc = "done" /\ ~cfg.retry /\ result.kind = "error")
    => (last.status = NoStatus /\ result.status = NoStatus)

\* C23 (as claimed): every attempt after the first begins at an elapsed
\* time strictly below the total timeout, after a 503 response and after a
\* thrown 503 alike.
C23_NoAttemptPastTimeout ==
  (cfg.retry /\ pc = "attempting" /\ calls > 0)
    => (Elapsed < C13_Budget)

C25_NonBusyResponseEnds ==
  (cfg.retry /\ calls > 0 /\ last.kind = "response" /\ last.status # 503)
    => (pc = "done" /\ result = last /\ calls = retries + 1)

C25_Witness ==
  /\ cfg.retry /\ pc = "done" /\ retries > 0
  /\ Elapsed >= C13_Budget
  /\ last = Response(400, Absent) /\ result = last

\* C26: a 503 that arrives when the attempt counter has reached a finite
\* maxRetries ends the session with that 503 (the response, or
\* ServiceUnavailableError for a thrown 503), never with TimeoutError,
\* also when the time budget is used up.
C26_ExhaustionBeforeTimeout ==
  (pc = "done" /\ cfg.retry /\ cfg.maxRetries # Undefined /\ Is503(last)
     /\ retries >= cfg.maxRetries)
    => /\ result.name # "TimeoutError"
       /\ (last.kind = "response") => result = last
       /\ (last.kind = "error")
            => (result.name = "ServiceUnavailableError" /\ result.status = 503)

C26_Witness ==
  /\ pc = "done" /\ cfg.retry /\ cfg.maxRetries = 1 /\ retries = 1
  /\ last.kind = "error" /\ last.status = 503
  /\ Elapsed >= C13_Budget
  /\ result.name = "ServiceUnavailableError"

C28_WaitsArePositive ==
  (pc = "waiting") => (waitMs > 0)

\* C29: the attempt counter starts at 0, grows by exactly one with each
\* wait committed to and never decreases; the exchanges made are the
\* counter plus one while an attempt is in flight (the one in flight
\* included) and when the session is over; both 503 paths count on the
\* same counter.
C29_CounterCountsWaits ==
  /\ [](/\ (pc = "idle") => (retries = 0 /\ calls = 0)
        /\ (pc = "attempting") => calls + 1 = retries + 1
        /\ (pc = "waiting") => calls = retries
        /\ (pc = "done") => calls = retries + 1)
  /\ [][/\ retries' >= retries
        /\ (pc' = "waiting" /\ pc # "waiting") <=> (retries' = retries + 1)
        /\ (retries' # retries) => (retries' = retries + 1)]_vars

C29_Witness ==
  /\ pc = "waiting" /\ retries = 2 /\ calls = 2
  /\ last.kind = "error" /\ prevWait = 5000

RECURSIVE C21_Replay(_, _, _)
\* the call s after the outcomes h[k], h[k + 1], ... with nothing else going on
C21_Replay(s, h, k) ==
  IF k > Len(h) THEN s
  ELSE C21_Replay(SessionOutcome(IF s.pc = "waiting" THEN SessionWake(s) ELSE s,
                                 h[k][1], h[k][2], h[k][3]),
                  h, k + 1)

\* the call s run alone: made when s was made, given the outcomes s got
C21_Alone(s) == C21_Replay(SessionBegin(s.req, s.issued), s.hist, 1)

\* C21: calls in flight at once on one client share no mutable state:
\* under every interleaving of their exchanges and waits each call has the
\* attempt counter, start time, waits, exchanges and outcome it would have
\* had alone with the same outcomes of its own exchanges.
C21_CallsIndependent ==
  \A i \in CallIds :
    LET s == sessions[i]
        a == C21_Alone(s)
    IN (s.pc # "idle")
         => /\ s.retries = a.retries /\ s.start = a.start
            /\ s.waits = a.waits /\ s.calls = a.calls /\ s.sent = a.sent
            /\ s.result = a.result
            /\ (s.pc = "done") <=> (a.pc = "done")
            /\ s.retries = Len(s.waits)

C21_Witness ==
  /\ sessions[1].pc = "done" /\ sessions[2].pc = "done"
  /\ sessions[1].retries = 1 /\ sessions[2].retries = 0
  /\ sessions[1].req # sessions[2].req
  /\ sessions[1].issued < sessions[2].issued
  /\ sessions[2].issued < sessions[1].hist[2][2]
  /\ sessions[2].hist[1][2] < sessions[1].hist[2][2]
  /\ sessions[1].waits = <<2999>>
  /\ sessions[1].result = Response(200, Absent)
  /\ sessions[2].result.name = "ServiceUnavailableError"

\* C31 (as claimed): a retrying call ends: with a finite maxRetries = N
\* after at most N + 1 exchanges, and with unlimited retries no later than
\* the first 503 outcome that arrives when the time budget no longer
\* covers the next wait (no wait is begun that ends at or after the
\* deadline).
C31_EndsInTime ==
  cfg.retry
    => /\ (cfg.maxRetries # Undefined)
            => /\ calls <= cfg.maxRetries + 1
               /\ (calls = cfg.maxRetries + 1) => pc = "done"
       /\ (cfg.maxRetries = Undefined /\ Is503(last) /\ pc = "waiting")
            => Elapsed + waitMs < C13_Budget

\* C32: every attempt of a call, the first and each retry, sends the
\* { method, url, data } of that call: the arguments do not change while
\* the call runs, the triple of a later attempt is the triple of the one
\* before, and the retryConfig argument is not in what is sent.
C32_SameTripleEveryAttempt ==
  /\ []((calls > 0)
          => /\ sent = [method |-> req.verb, url |-> req.url, data |-> req.data]
             /\ (api = "request") => sent.data.kind \in {"undefined", "body"})
  /\ [][/\ (pc # "idle") => req' = req
        /\ (calls > 0 /\ calls' # calls) => sent' = sent]_vars

C32_Witness ==
  /\ api = "request" /\ cfg.retry /\ retries = 2 /\ calls = 3
  /\ sent = [method |-> "POST", url |-> <<"/jobs">>, data |-> Body("job")]

\* C33: a session moves only from attempting to done, from attempting to
\* waiting and from waiting to attempting: it starts attempting with no
\* wait, a wait begins only with a 503 outcome of the exchange just made,
\* a wait is followed by one further exchange, and done is entered from
\* attempting only and never left.
C33_TransitionsOfSession ==
  [][/\ (pc = "idle" /\ pc' # "idle")
          => (pc' = "attempting" /\ retries' = 0 /\ waitMs' = 0 /\ calls' = 0)
     /\ (pc = "attempting")
          => (pc' \in {"attempting", "waiting", "done"}
                /\ (pc' # "attempting") => calls' = calls + 1)
     /\ (pc = "attempting" /\ pc' = "waiting")
          => (Is503(last') /\ cfg.retry)
     /\ (pc = "waiting")
          => (pc' \in {"waiting", "attempting"} /\ calls' = calls
                /\ (pc' = "waiting") => UNCHANGED vars)
     /\ (pc = "done") => pc' = "done"
     /\ (pc' = "done" /\ pc # "done") => pc = "attempting"]_vars

C33_Witness ==
  /\ pc = "done" /\ cfg.retry /\ retries = 2 /\ calls = 3
  /\ result.kind = "response" /\ result.status = 200

====
